---------------------------- MODULE Spec2Model ----------------------------
(***************************************************************************)
(* A model of the multi-criteria decision scorer of src/decision.py and of *)
(* its caller src/main.py.                                                 *)
(*                                                                         *)
(* Numbers.  Python ints and floats are modelled as exact rationals, a     *)
(* pair <<n, d>> in lowest terms with d > 0.  The result of a call that    *)
(* may raise is a record [err, val]: err is "" and val the value returned, *)
(* or err names the exception raised ("ValueError", "ZeroDivisionError",   *)
(* "StatisticsError").                                                     *)
(*                                                                         *)
(* Objects.  An Option is a record [id, name, params]: id is the object's  *)
(* identity, params a function whose domain is the set of keys present.    *)
(* A dict is the sequence of its entries [key, val] in insertion order.    *)
(***************************************************************************)
EXTENDS Integers, Sequences, FiniteSets, TLC

VARIABLES run, rng, arg, ret

vars == <<run, rng, arg, ret>>

-----------------------------------------------------------------------------
(* Bounds of the model *)

\* the longest list of options a caller passes
MaxOpts == 3

\* n of simulate_fulfilment, 100 in the source, scaled down
NSamples == 2

\* the longest list of raw values given to normalize
MaxLen == 3

\* the longest list of samples given to expected_utility
MaxSamples == 4

\* the largest score mapping given to explain directly
MaxEntries == 2

\* the longest list of options each of two concurrent runs scores
MaxConcurrentOpts == 2

-----------------------------------------------------------------------------
(* Exact rational arithmetic: Python's +, -, *, / and comparisons *)

Abs(n) == IF n < 0 THEN -n ELSE n

RECURSIVE GCD(_, _)
GCD(a, b) == IF b = 0 THEN a ELSE GCD(b, a % b)

\* the rational n/d in lowest terms, d # 0
Rat(n, d) ==
    LET g == GCD(Abs(n), Abs(d))
        s == IF d < 0 THEN -1 ELSE 1
    IN  <<(s * n) \div g, (s * d) \div g>>

Num(n) == <<n, 1>>

\* sums and comparisons go through the least common denominator
RAdd(a, b) ==
    LET g == GCD(a[2], b[2])
    IN  Rat(a[1] * (b[2] \div g) + b[1] * (a[2] \div g), (a[2] \div g) * b[2])

RSub(a, b) == RAdd(a, <<-b[1], b[2]>>)

RMul(a, b) ==
    LET g == GCD(Abs(a[1]), b[2])
        h == GCD(Abs(b[1]), a[2])
    IN  Rat((a[1] \div g) * (b[1] \div h), (a[2] \div h) * (b[2] \div g))

\* a / b for b # 0 (the callers raise ZeroDivisionError when b is zero)
RDiv(a, b) == RMul(a, Rat(b[2], b[1]))

RLe(a, b) ==
    LET g == GCD(a[2], b[2])
    IN  a[1] * (b[2] \div g) <= b[1] * (a[2] \div g)

RLt(a, b) ==
    LET g == GCD(a[2], b[2])
    IN  a[1] * (b[2] \div g) < b[1] * (a[2] \div g)

\* a call that returned v, and a call that raised e
Ok(v) == [err |-> "", val |-> v]

Raise(e) == [err |-> e, val |-> <<>>]

RECURSIVE RSum(_)
RSum(s) == IF s = <<>> THEN Num(0) ELSE RAdd(Head(s), RSum(Tail(s)))

\* Python's min and max of a non-empty list
RECURSIVE RMin(_)
RMin(s) ==
    IF Len(s) = 1 THEN s[1]
    ELSE LET m == RMin(Tail(s)) IN IF RLe(s[1], m) THEN s[1] ELSE m

RECURSIVE RMax(_)
RMax(s) ==
    IF Len(s) = 1 THEN s[1]
    ELSE LET m == RMax(Tail(s)) IN IF RLe(m, s[1]) THEN s[1] ELSE m

\* all sequences over S of length at most n
SeqUpTo(S, n) == UNION {[1..k -> S] : k \in 0..n}

-----------------------------------------------------------------------------
(* Option, Context and dicts keyed by Option *)

\* params.get(key, default)
Get(params, key, default) ==
    IF key \in DOMAIN params THEN Num(params[key]) ELSE default

\* Option.__hash__: the hash of the name
Hash(opt) == opt.name

\* No __eq__ is defined, so == is object identity; a dict treats two keys as
\* the same key when their hashes agree and they are equal.
KeyEq(a, b) == Hash(a) = Hash(b) /\ a.id = b.id

HasKey(d, k) == \E j \in 1..Len(d) : KeyEq(d[j].key, k)

\* d[k]
DictGet(d, k) ==
    d[CHOOSE j \in 1..Len(d) : KeyEq(d[j].key, k)].val

\* d[k] = v: an existing key keeps its place and its key object
DictSet(d, k, v) ==
    IF HasKey(d, k)
        THEN [j \in 1..Len(d) |->
                 IF KeyEq(d[j].key, k) THEN [key |-> d[j].key, val |-> v]
                 ELSE d[j]]
        ELSE Append(d, [key |-> k, val |-> v])

\* dict(zip(keys, vals))
RECURSIVE DictZip(_, _, _)
DictZip(d, keys, vals) ==
    IF keys = <<>> \/ vals = <<>> THEN d
    ELSE DictZip(DictSet(d, Head(keys), Head(vals)), Tail(keys), Tail(vals))

-----------------------------------------------------------------------------
(* Constraints *)

\* the threshold of time_constraint
TimeThreshold == 35

\* time_constraint with < for <=
TimeConstraintStrict(option) ==
    RLt(Get(option.params, "time_taken", Num(0)), Num(TimeThreshold))

time_constraint(option) ==
    RLe(Get(option.params, "time_taken", Num(0)), Num(TimeThreshold))

\* the configured predicates, by name
CONSTRAINTS == <<"time_constraint">>

Constraint(c, option) ==
    CASE c = "time_constraint" -> time_constraint(option)

\* [opt for opt in options if all(c(opt) for c in CONSTRAINTS)]
apply_constraints(options) ==
    SelectSeq(options,
              LAMBDA opt : \A k \in 1..Len(CONSTRAINTS) :
                               Constraint(CONSTRAINTS[k], opt))

-----------------------------------------------------------------------------
(* Criteria *)

time_score(option) ==
    RSub(Num(0), Get(option.params, "time_taken", Num(0)))

social_score(option) == Get(option.params, "social_value", Num(0))

novelty_score(option) == Get(option.params, "novelty_meter", Num(0))

learn_score(option) == Get(option.params, "learn_index", Num(0))

emotional_score(option) == Get(option.params, "move_heart", Num(0))

\* the registry's names in its order
CRITERIA ==
    <<"time_score", "social_score", "novelty_score", "learn_score",
      "emotional_score">>

Criterion(crit, option) ==
    CASE crit = "time_score" -> time_score(option)
      [] crit = "social_score" -> social_score(option)
      [] crit = "novelty_score" -> novelty_score(option)
      [] crit = "learn_score" -> learn_score(option)
      [] crit = "emotional_score" -> emotional_score(option)

-----------------------------------------------------------------------------
(* Normalization *)

\* normalize with the guard for equal values left out
NormalizeNoGuard(scores) ==
    IF scores = <<>> THEN Raise("ValueError")
    ELSE LET min_s == RMin(scores)
             max_s == RMax(scores)
         IN  IF min_s = max_s THEN Raise("ZeroDivisionError")
             ELSE Ok([j \in 1..Len(scores) |->
                         RDiv(RSub(scores[j], min_s), RSub(max_s, min_s))])

\* min and max of an empty list raise ValueError
normalize(scores) ==
    IF scores = <<>> THEN Raise("ValueError")
    ELSE LET min_s == RMin(scores)
             max_s == RMax(scores)
         IN  IF min_s = max_s
                 THEN Ok([j \in 1..Len(scores) |-> <<1, 2>>])
                 ELSE Ok([j \in 1..Len(scores) |->
                             RDiv(RSub(scores[j], min_s), RSub(max_s, min_s))])

\* the tables of the first k criteria, or the exception normalize raised
RECURSIVE NormalizedUpTo(_, _)
NormalizedUpTo(options, k) ==
    IF k = 0 THEN Ok(<<>>)
    ELSE LET prev == NormalizedUpTo(options, k - 1)
             raw == [j \in 1..Len(options) |-> Criterion(CRITERIA[k], options[j])]
             norm == normalize(raw)
         IN  IF prev.err # "" THEN prev
             ELSE IF norm.err # "" THEN Raise(norm.err)
             ELSE Ok(Append(prev.val, DictZip(<<>>, options, norm.val)))

\* normalized[crit_name] is val[k] for crit_name = CRITERIA[k]
compute_normalized_scores(options) == NormalizedUpTo(options, Len(CRITERIA))

-----------------------------------------------------------------------------
(* Context and weights *)

compute_weights(context) ==
    [crit \in {CRITERIA[k] : k \in 1..Len(CRITERIA)} |->
        IF crit = "time_score"
            THEN RAdd(Num(1), Num(context.pressing_matters))
            ELSE Num(1)]

-----------------------------------------------------------------------------
(* The random source: the generator of the random module, one per process *)

\* the standard normal deviate each state of the generator yields
ZTable == <<0, 1, 1, 0, -1>>

RngStates == 0..(Len(ZTable) - 1)

RngNext(s) == (s + 1) % Len(ZTable)

\* random.seed(x): the state the seed x sets
SeedState(x) == x % Len(ZTable)

\* random.gauss(mu, sigma) in state s
Gauss(mu, sigma, s) == RAdd(mu, RMul(sigma, Num(ZTable[s + 1])))

-----------------------------------------------------------------------------
(* Fulfilment simulation and expected utility *)

\* sigma of simulate_fulfilment
Sigma == <<1, 2>>

\* the mean of the samples simulate_fulfilment draws
Scaled(option, context) ==
    LET base == Get(option.params, "fulfilment_value", Num(0))
    IN  RMul(base,
             RAdd(Num(1),
                  RAdd(RMul(<<1, 2>>, Num(context.pressing_matters)),
                       RMul(<<1, 2>>, Num(context.device)))))

\* simulate_fulfilment(option, context, n) with the generator in state s
RECURSIVE simulate_fulfilment(_, _, _, _)
simulate_fulfilment(option, context, n, s) ==
    IF n = 0 THEN <<>>
    ELSE <<Gauss(Scaled(option, context), Sigma, s)>>
             \o simulate_fulfilment(option, context, n - 1, RngNext(s))

\* statistics.mean of a non-empty list
Mean(values) == RDiv(RSum(values), Num(Len(values)))

\* statistics.variance: the sample variance of two values or more
Variance(values) ==
    LET mu == Mean(values)
        sq == [j \in 1..Len(values) |->
                  RMul(RSub(values[j], mu), RSub(values[j], mu))]
    IN  RDiv(RSum(sq), Num(Len(values) - 1))

\* risk_lambda's default
DefaultRiskLambda == <<1, 100>>

\* statistics.mean raises StatisticsError on an empty list
expected_utility(values, risk_lambda) ==
    IF values = <<>> THEN Raise("StatisticsError")
    ELSE LET mu == Mean(values)
             var == IF Len(values) > 1 THEN Variance(values) ELSE Num(0)
         IN  Ok(RSub(mu, RMul(risk_lambda, var)))

-----------------------------------------------------------------------------
(* Combinational impact *)

\* learn / time and novelty / time raise ZeroDivisionError when time is 0
combinational_impact(option) ==
    LET time == Get(option.params, "time_taken", Num(1))
        learn == Get(option.params, "learn_index", Num(0))
        novelty == Get(option.params, "novelty_meter", Num(0))
        fulfil == Get(option.params, "fulfilment_value", Num(0))
    IN  IF time[1] = 0 THEN Raise("ZeroDivisionError")
        ELSE LET learn_impact == RDiv(learn, time)
                 novelty_impact == RDiv(novelty, time)
                 fulfil_impact == RDiv(fulfil, RMax(<<time, Num(1)>>))
             IN  Ok(RAdd(RAdd(learn_impact, novelty_impact), fulfil_impact))

-----------------------------------------------------------------------------
(* Aggregate scoring *)

\* the weighted sum of the normalized criteria of opt, criteria k and up
RECURSIVE WeightedSum(_, _, _, _)
WeightedSum(opt, normalized_scores, weights, k) ==
    IF k > Len(CRITERIA) THEN Num(0)
    ELSE RAdd(RMul(DictGet(normalized_scores[k], opt), weights[CRITERIA[k]]),
              WeightedSum(opt, normalized_scores, weights, k + 1))

\* one pass of the loop body of score, given the samples drawn for opt
ScoreTotal(opt, normalized_scores, weights, fulfil_values) ==
    LET eu == expected_utility(fulfil_values, DefaultRiskLambda)
        ci == combinational_impact(opt)
    IN  IF eu.err # "" THEN Raise(eu.err)
        ELSE IF ci.err # "" THEN Raise(ci.err)
        ELSE Ok(RAdd(RAdd(WeightedSum(opt, normalized_scores, weights, 1),
                          eu.val),
                     ci.val))

RECURSIVE RngAdvance(_, _)
RngAdvance(s, n) == IF n = 0 THEN s ELSE RngAdvance(RngNext(s), n - 1)

\* the loop of score from option i on, the generator in state s
RECURSIVE ScoreLoop(_, _, _, _, _, _, _)
ScoreLoop(options, context, normalized_scores, weights, i, s, scores) ==
    IF i > Len(options) THEN Ok(scores)
    ELSE LET fulfil_values ==
                 simulate_fulfilment(options[i], context, NSamples, s)
             total ==
                 ScoreTotal(options[i], normalized_scores, weights, fulfil_values)
         IN  IF total.err # "" THEN Raise(total.err)
             ELSE ScoreLoop(options, context, normalized_scores, weights,
                            i + 1, RngAdvance(s, NSamples),
                            DictSet(scores, options[i], total.val))

\* score(options, context) run alone with the generator in state s
score(options, context, s) ==
    LET normalized_scores == compute_normalized_scores(options)
    IN  IF normalized_scores.err # "" THEN Raise(normalized_scores.err)
        ELSE ScoreLoop(options, context, normalized_scores.val,
                       compute_weights(context), 1, s, <<>>)

-----------------------------------------------------------------------------
(* Explanation: the selection of the best option *)

NoOption == [id |-> 0, name |-> "", params |-> [none |-> 0]]

\* the arg-max keeping the last entry that holds the greatest value
RECURSIVE ArgMaxLast(_, _, _)
ArgMaxLast(scores, j, best) ==
    IF j > Len(scores) THEN best
    ELSE ArgMaxLast(scores, j + 1,
                    IF RLe(scores[best].val, scores[j].val) THEN j ELSE best)

\* max(scores, key=scores.get) over entries j..Len(scores): the first entry
\* holding the greatest value, best being the greatest so far
RECURSIVE ArgMax(_, _, _)
ArgMax(scores, j, best) ==
    IF j > Len(scores) THEN best
    ELSE ArgMax(scores, j + 1,
                IF RLt(scores[best].val, scores[j].val) THEN j ELSE best)

\* the option explain selects; max of an empty mapping raises ValueError
explain(scores) ==
    IF scores = <<>> THEN [err |-> "ValueError", val |-> NoOption]
    ELSE [err |-> "", val |-> scores[ArgMax(scores, 2, 1)].key]

-----------------------------------------------------------------------------
(* The inputs the model draws from *)

\* Option objects a caller constructs: the first two are those of the
\* example; 3 is a second object named like 1; 4 takes no time; 5 exceeds
\* the threshold; 6 has no time_taken; 7 is at the threshold
Pool ==
    { [id |-> 1, name |-> "Read book",
       params |-> [time_taken |-> 5, social_value |-> 2, novelty_meter |-> 3,
                   learn_index |-> 5, move_heart |-> 1, fulfilment_value |-> 6]],
      [id |-> 2, name |-> "Go for walk",
       params |-> [time_taken |-> 3, social_value |-> 4, novelty_meter |-> 2,
                   learn_index |-> 2, move_heart |-> 3, fulfilment_value |-> 4]],
      [id |-> 3, name |-> "Read book",
       params |-> [time_taken |-> 5, social_value |-> 2, novelty_meter |-> 3,
                   learn_index |-> 5, move_heart |-> 1, fulfilment_value |-> 6]],
      [id |-> 4, name |-> "Nap",
       params |-> [time_taken |-> 0, social_value |-> 1, novelty_meter |-> 1,
                   learn_index |-> 1, move_heart |-> 2, fulfilment_value |-> 2]],
      [id |-> 5, name |-> "Trip",
       params |-> [time_taken |-> 36, social_value |-> 5, novelty_meter |-> 5,
                   learn_index |-> 3, move_heart |-> 4, fulfilment_value |-> 7]],
      [id |-> 6, name |-> "Idle",
       params |-> [social_value |-> 1]],
      [id |-> 7, name |-> "Hike",
       params |-> [time_taken |-> 35, social_value |-> 3, novelty_meter |-> 4,
                   learn_index |-> 2, move_heart |-> 4, fulfilment_value |-> 5]] }

\* the contexts of the two example callers
Contexts ==
    { [device |-> 1, pressing_matters |-> 2],
      [device |-> 5, pressing_matters |-> 0] }

-----------------------------------------------------------------------------
(* State.  run[r] is one scoring run, the caller of main.py; rng is the   *)
(* state of the process-wide generator; arg and ret are the argument and  *)
(* the result of a function called on its own.                            *)

NewRun(pc, options, context, seed) ==
    [pc |-> pc, options |-> options, context |-> context, seed |-> seed,
     feasible |-> <<>>, normalized_scores |-> <<>>, scores |-> <<>>,
     i |-> 0, fulfil_values |-> <<>>, drawn |-> <<>>, start |-> 0,
     best |-> NoOption, err |-> ""]

Pending == [err |-> "pending", val |-> <<>>]

Init ==
    /\ \E options \in SeqUpTo(Pool, MaxOpts) : \E context \in Contexts :
           run = [r \in {1} |-> NewRun("start", options, context, 0)]
    /\ rng \in RngStates
    /\ arg = <<>>
    /\ ret = Pending

Set(r, f) == [run EXCEPT ![r] = f]

\* options = apply_constraints(options)
ApplyConstraints(r) ==
    /\ run[r].pc = "start"
    /\ run' = Set(r, [run[r] EXCEPT !.pc = "filtered",
                                    !.feasible = apply_constraints(run[r].options)])
    /\ UNCHANGED <<rng, arg, ret>>

\* score up to its loop: the normalized tables, the weights, scores = {}
ScoreBegin(r) ==
    /\ run[r].pc = "filtered"
    /\ LET normalized_scores == compute_normalized_scores(run[r].feasible)
       IN  run' = Set(r,
               IF normalized_scores.err # ""
                   THEN [run[r] EXCEPT !.pc = "raised",
                                       !.err = normalized_scores.err,
                                       !.start = rng]
                   ELSE [run[r] EXCEPT !.pc = "loop",
                                       !.normalized_scores = normalized_scores.val,
                                       !.scores = <<>>,
                                       !.i = 1,
                                       !.start = rng])
    /\ UNCHANGED <<rng, arg, ret>>

\* one random.gauss of simulate_fulfilment for option i
Draw(r) ==
    /\ run[r].pc = "loop"
    /\ Len(run[r].fulfil_values) < NSamples
    /\ run' = Set(r, [run[r] EXCEPT !.fulfil_values =
                         Append(@, Gauss(Scaled(run[r].feasible[run[r].i],
                                                run[r].context), Sigma, rng))])
    /\ rng' = RngNext(rng)
    /\ UNCHANGED <<arg, ret>>

\* the rest of the loop body for option i, and the return after the last
ScoreOption(r) ==
    /\ run[r].pc = "loop"
    /\ Len(run[r].fulfil_values) = NSamples
    /\ LET opt == run[r].feasible[run[r].i]
           total == ScoreTotal(opt, run[r].normalized_scores,
                               compute_weights(run[r].context),
                               run[r].fulfil_values)
       IN  run' = Set(r,
               IF total.err # ""
                   THEN [run[r] EXCEPT !.pc = "raised", !.err = total.err,
                                       !.drawn = Append(@, run[r].fulfil_values)]
                   ELSE [run[r] EXCEPT
                            !.pc = IF run[r].i = Len(run[r].feasible)
                                       THEN "scored" ELSE "loop",
                            !.scores = DictSet(@, opt, total.val),
                            !.drawn = Append(@, run[r].fulfil_values),
                            !.fulfil_values = <<>>,
                            !.i = @ + 1])
    /\ UNCHANGED <<rng, arg, ret>>

\* explain(scores_dict)
Explain(r) ==
    /\ run[r].pc = "scored"
    /\ LET e == explain(run[r].scores)
       IN  run' = Set(r, [run[r] EXCEPT
                            !.pc = IF e.err # "" THEN "raised" ELSE "done",
                            !.err = e.err,
                            !.best = e.val])
    /\ UNCHANGED <<rng, arg, ret>>

Next ==
    \/ \E r \in DOMAIN run : ApplyConstraints(r)
    \/ \E r \in DOMAIN run : ScoreBegin(r)
    \/ \E r \in DOMAIN run : Draw(r)
    \/ \E r \in DOMAIN run : ScoreOption(r)
    \/ \E r \in DOMAIN run : Explain(r)

Spec == Init /\ [][Next]_vars

-----------------------------------------------------------------------------
(* normalize called on its own *)

\* the raw values normalize is given
RawValues == {Num(v) : v \in -2..2}

InitNormalize ==
    /\ run = [r \in {1} |-> NewRun("idle", <<>>, [device |-> 0, pressing_matters |-> 0], 0)]
    /\ rng = 0
    /\ arg \in SeqUpTo(RawValues, MaxLen)
    /\ ret = Pending

CallNormalize ==
    /\ ret.err = "pending"
    /\ ret' = normalize(arg)
    /\ UNCHANGED <<run, rng, arg>>

NextNormalize == CallNormalize

SpecNormalize == InitNormalize /\ [][NextNormalize]_vars

-----------------------------------------------------------------------------
(* expected_utility called on its own *)

\* the samples and the coefficients expected_utility is given
SampleValues == {Num(4), Num(5), Num(6)}

RiskLambdas == {Num(0), DefaultRiskLambda, <<1, 2>>}

InitUtility ==
    /\ run = [r \in {1} |-> NewRun("idle", <<>>, [device |-> 0, pressing_matters |-> 0], 0)]
    /\ rng = 0
    /\ \E values \in SeqUpTo(SampleValues, MaxSamples) :
       \E risk_lambda \in RiskLambdas :
           arg = [values |-> values, risk_lambda |-> risk_lambda]
    /\ ret = Pending

CallExpectedUtility ==
    /\ ret.err = "pending"
    /\ ret' = expected_utility(arg.values, arg.risk_lambda)
    /\ UNCHANGED <<run, rng, arg>>

NextUtility == CallExpectedUtility

SpecUtility == InitUtility /\ [][NextUtility]_vars

-----------------------------------------------------------------------------
(* explain called on its own, on any score mapping *)

ScoreValues == {Num(1), Num(2)}

\* the dicts of at most MaxEntries entries: no key twice
Mappings ==
    {d \in SeqUpTo([key : Pool, val : ScoreValues], MaxEntries) :
        \A j, k \in 1..Len(d) : KeyEq(d[j].key, d[k].key) => j = k}

InitExplain ==
    /\ run = [r \in {1} |-> NewRun("idle", <<>>, [device |-> 0, pressing_matters |-> 0], 0)]
    /\ rng = 0
    /\ arg \in Mappings
    /\ ret = Pending

CallExplain ==
    /\ ret.err = "pending"
    /\ ret' = explain(arg)
    /\ UNCHANGED <<run, rng, arg>>

NextExplain == CallExplain

SpecExplain == InitExplain /\ [][NextExplain]_vars

-----------------------------------------------------------------------------
(* Two scoring runs in one process.  Each caller seeds the generator with  *)
(* random.seed, the one way to give a run a seed, and then scores; the     *)
(* steps of the two runs interleave.                                       *)

\* the seeds of run 1 and of run 2
Seeds == <<0, 3>>

\* the options the two runs score
ConcurrentPool == {o \in Pool : o.id \in {1, 2}}

InitConcurrent ==
    /\ \E o1 \in SeqUpTo(ConcurrentPool, MaxConcurrentOpts) :
       \E o2 \in SeqUpTo(ConcurrentPool, MaxConcurrentOpts) :
           /\ o1 # <<>>
           /\ o2 # <<>>
           /\ run = [r \in {1, 2} |->
                        NewRun("seed", IF r = 1 THEN o1 ELSE o2,
                               [device |-> 1, pressing_matters |-> 2], Seeds[r])]
    /\ rng \in RngStates
    /\ arg = <<>>
    /\ ret = Pending

\* random.seed(seed)
Seed(r) ==
    /\ run[r].pc = "seed"
    /\ rng' = SeedState(run[r].seed)
    /\ run' = Set(r, [run[r] EXCEPT !.pc = "start"])
    /\ UNCHANGED <<arg, ret>>

NextConcurrent ==
    \/ \E r \in DOMAIN run : Seed(r)
    \/ \E r \in DOMAIN run : ApplyConstraints(r)
    \/ \E r \in DOMAIN run : ScoreBegin(r)
    \/ \E r \in DOMAIN run : Draw(r)
    \/ \E r \in DOMAIN run : ScoreOption(r)

SpecConcurrent == InitConcurrent /\ [][NextConcurrent]_vars

-----------------------------------------------------------------------------
(* Properties *)

Returned(r) == run[r].pc \in {"scored", "done"}

\* the last place of the object feasible[j] in the candidate list
LastPlace(r, j) ==
    CHOOSE m \in 1..Len(run[r].feasible) :
        /\ run[r].feasible[m].id = run[r].feasible[j].id
        /\ \A q \in (m + 1)..Len(run[r].feasible) :
               run[r].feasible[q].id # run[r].feasible[j].id

\* the min-max-normalized value of criterion k for candidate j
MinMax(options, k, j) ==
    LET raw == [q \in 1..Len(options) |-> Criterion(CRITERIA[k], options[q])]
        lo == RMin(raw)
        hi == RMax(raw)
    IN  IF lo = hi THEN <<1, 2>> ELSE RDiv(RSub(raw[j], lo), RSub(hi, lo))

\* the weight the shipped policy gives criterion k
PolicyWeight(context, k) ==
    IF CRITERIA[k] = "time_score" THEN Num(1 + context.pressing_matters)
    ELSE Num(1)

RECURSIVE CriteriaSum(_, _, _, _)
CriteriaSum(options, context, j, k) ==
    IF k = 0 THEN Num(0)
    ELSE RAdd(RMul(MinMax(options, k, j), PolicyWeight(context, k)),
              CriteriaSum(options, context, j, k - 1))

\* every candidate has one entry, the sum of its three terms
OneEntryPerCandidate(r) ==
    /\ Len(run[r].scores) =
           Cardinality({run[r].feasible[j].id : j \in 1..Len(run[r].feasible)})
    /\ \A j \in 1..Len(run[r].feasible) :
           LET opt == run[r].feasible[j]
               m == LastPlace(r, j)
               ci == combinational_impact(opt)
           IN  /\ Cardinality({e \in 1..Len(run[r].scores) :
                                  run[r].scores[e].key.id = opt.id}) = 1
               /\ ci.err = ""
               /\ DictGet(run[r].scores, opt) =
                      RAdd(RAdd(CriteriaSum(run[r].feasible, run[r].context, j,
                                            Len(CRITERIA)),
                                expected_utility(run[r].drawn[m],
                                                 DefaultRiskLambda).val),
                           ci.val)

\* C1: for every non-empty candidate list and every context, score returns a
\* mapping with exactly one entry per candidate, each entry the sum of the
\* weighted min-max-normalized criteria, the expected utility of the samples
\* drawn for the option in this call, and its combinational impact.
C1_ScoreMapping ==
    \A r \in DOMAIN run :
        (run[r].pc \in {"scored", "done", "raised"} /\ run[r].feasible # <<>>)
            => (run[r].err = "" /\ OneEntryPerCandidate(r))

\* what score does return, when it returns, is that mapping
ScoreMappingWhenReturned ==
    \A r \in DOMAIN run : Returned(r) => OneEntryPerCandidate(r)

\* a run on its own: the steps of score give what score gives in one piece
AloneAgrees ==
    \A r \in DOMAIN run :
        /\ Returned(r) =>
               Ok(run[r].scores) = score(run[r].feasible, run[r].context, run[r].start)
        /\ run[r].pc = "raised" =>
               score(run[r].feasible, run[r].context, run[r].start).err = run[r].err

-----------------------------------------------------------------------------

InUnit(x) == RLe(Num(0), x) /\ RLe(x, Num(1))

AllEqual(s) == \A j, k \in 1..Len(s) : s[j] = s[k]

\* C2: for any non-empty list of raw values, normalize returns as many values
\* as it was given, each in [0,1], and each exactly 0.5 when all raw values
\* are equal (no division by zero).
C2_Normalize ==
    (ret.err # "pending" /\ arg # <<>>)
        => /\ ret.err = ""
           /\ Len(ret.val) = Len(arg)
           /\ \A j \in 1..Len(ret.val) : InUnit(ret.val[j])
           /\ AllEqual(arg) => \A j \in 1..Len(ret.val) : ret.val[j] = <<1, 2>>

\* normalize has returned for a list of two or more equal raw values
C2_Witness ==
    /\ ret.err = ""
    /\ Len(arg) >= 2
    /\ AllEqual(arg)
    /\ Len(ret.val) = Len(arg)

\* normalize has returned for raw values that differ
NormalizeSpreadReached ==
    /\ ret.err = ""
    /\ Len(arg) >= 2
    /\ ~AllEqual(arg)
    /\ \E j \in 1..Len(ret.val) : ret.val[j] = Num(0)
    /\ \E j \in 1..Len(ret.val) : ret.val[j] = Num(1)

-----------------------------------------------------------------------------

\* the default predicate, read off the option: time_taken, 0 when absent,
\* is at most 35
WithinTime(opt) ==
    IF "time_taken" \in DOMAIN opt.params THEN opt.params.time_taken <= 35
    ELSE TRUE

\* sub is a subsequence of full: a strictly increasing choice of places
IsSubsequence(sub, full) ==
    \E f \in [1..Len(sub) -> 1..Len(full)] :
        /\ \A j \in 1..Len(sub) : sub[j] = full[f[j]]
        /\ \A j, k \in 1..Len(sub) : j < k => f[j] < f[k]

\* C3: for every input sequence (the empty one included) apply_constraints
\* returns a subsequence of the input, in the input's order, of options that
\* satisfy every predicate (time_taken, 0 when absent, <= 35), and returns
\* every input option that satisfies them.
C3_ApplyConstraints ==
    \A r \in DOMAIN run :
        run[r].pc \notin {"idle", "seed", "start"}
            => /\ IsSubsequence(run[r].feasible, run[r].options)
               /\ \A j \in 1..Len(run[r].feasible) : WithinTime(run[r].feasible[j])
               /\ Len(run[r].feasible) =
                      Cardinality({j \in 1..Len(run[r].options) :
                                      WithinTime(run[r].options[j])})

\* the filter has dropped an option and kept, in order, one at the threshold
\* and one with no time_taken
C3_Witness ==
    \E r \in DOMAIN run :
        /\ run[r].pc = "filtered"
        /\ Len(run[r].options) = 3
        /\ Len(run[r].feasible) = 2
        /\ "time_taken" \in DOMAIN run[r].feasible[1].params
        /\ run[r].feasible[1].params.time_taken = 35
        /\ "time_taken" \notin DOMAIN run[r].feasible[2].params

\* the filter has been given the empty sequence
FilterOfEmptyReached ==
    \E r \in DOMAIN run :
        run[r].pc = "filtered" /\ run[r].options = <<>> /\ run[r].feasible = <<>>

-----------------------------------------------------------------------------

\* C4: when score is invoked with zero feasible options (the input was empty
\* or the filter rejected every option), it returns an empty score mapping
\* rather than failing.
C4_EmptyScores ==
    \A r \in DOMAIN run :
        (run[r].pc \in {"loop", "scored", "done", "raised"} /\ run[r].feasible = <<>>)
            => (run[r].err = "" /\ run[r].scores = <<>> /\ Returned(r))

\* C5: given an empty score mapping, the selection in explain yields an
\* explicit "no feasible option" outcome and does not fail.
C5_NoFeasibleOutcome ==
    (ret.err # "pending" /\ arg = <<>>)
        => (ret.err = "" /\ ret.val = NoOption)

-----------------------------------------------------------------------------

\* the first place of the object opt in the candidate list
FirstPlace(r, opt) ==
    CHOOSE m \in 1..Len(run[r].feasible) :
        /\ run[r].feasible[m].id = opt.id
        /\ \A q \in 1..(m - 1) : run[r].feasible[q].id # opt.id

\* C6: for every non-empty score mapping score produces over a candidate
\* list, the selected option's score is greater than or equal to every other
\* option's, and among the options sharing the greatest score the selected
\* one appears first in the candidate list.
C6_Selection ==
    \A r \in DOMAIN run :
        (run[r].pc = "done" /\ run[r].scores # <<>>)
            => /\ \E j \in 1..Len(run[r].feasible) :
                      run[r].feasible[j] = run[r].best
               /\ \A j \in 1..Len(run[r].feasible) :
                      RLe(DictGet(run[r].scores, run[r].feasible[j]),
                          DictGet(run[r].scores, run[r].best))
               /\ \A j \in 1..(FirstPlace(r, run[r].best) - 1) :
                      RLt(DictGet(run[r].scores, run[r].feasible[j]),
                          DictGet(run[r].scores, run[r].best))

\* explain has selected among two entries that share the greatest score
C6_Witness ==
    \E r \in DOMAIN run :
        /\ run[r].pc = "done"
        /\ Len(run[r].scores) >= 2
        /\ \E j, k \in 1..Len(run[r].scores) :
               /\ j < k
               /\ run[r].scores[j].val = run[r].scores[k].val
               /\ run[r].scores[j].key = run[r].best
               /\ \A q \in 1..Len(run[r].scores) :
                      RLe(run[r].scores[q].val, run[r].scores[j].val)

-----------------------------------------------------------------------------

\* C7: two scoring runs executed concurrently, each with its own seed, never
\* interfere: the score mapping each produces is the one it produces when
\* executed alone with the same seed and inputs.
C7_Isolated ==
    \A r \in DOMAIN run :
        Returned(r) =>
            Ok(run[r].scores) =
                score(run[r].feasible, run[r].context, SeedState(run[r].seed))

-----------------------------------------------------------------------------

\* C8: the containers keyed by Option use the name as the key: at most one
\* entry per distinct name, and a lookup with any Option of that name finds it.
KeyedByName(d) ==
    /\ \A j, k \in 1..Len(d) : d[j].key.name = d[k].key.name => j = k
    /\ \A j \in 1..Len(d) : \A o \in Pool :
           o.name = d[j].key.name => HasKey(d, o)

C8_KeyedByName ==
    \A r \in DOMAIN run :
        Returned(r)
            => /\ KeyedByName(run[r].scores)
               /\ \A k \in 1..Len(run[r].normalized_scores) :
                      KeyedByName(run[r].normalized_scores[k])

-----------------------------------------------------------------------------

\* C9: for every sample sequence and risk_lambda, expected_utility returns
\* mean - risk_lambda * sample variance, the variance taken as 0 for fewer
\* than two samples, a value and not an error; [5,5,5,5] with 0.01 gives 5
\* and [4,6] gives 4.98.
UtilityValue(values, risk_lambda) ==
    RSub(Mean(values),
         RMul(risk_lambda, IF Len(values) < 2 THEN Num(0) ELSE Variance(values)))

C9_ExpectedUtility ==
    ret.err # "pending"
        => /\ ret.err = ""
           /\ arg.values # <<>> => ret.val = UtilityValue(arg.values, arg.risk_lambda)
           /\ (arg.values = <<Num(5), Num(5), Num(5), Num(5)>>
                 /\ arg.risk_lambda = <<1, 100>>) => ret.val = Num(5)
           /\ (arg.values = <<Num(4), Num(6)>> /\ arg.risk_lambda = <<1, 100>>)
                 => ret.val = <<249, 50>>

\* what expected_utility does return for one sample or more
UtilityOfSamples ==
    (ret.err # "pending" /\ arg.values # <<>>)
        => /\ ret.err = ""
           /\ ret.val = UtilityValue(arg.values, arg.risk_lambda)
           /\ (arg.values = <<Num(5), Num(5), Num(5), Num(5)>>
                 /\ arg.risk_lambda = <<1, 100>>) => ret.val = Num(5)
           /\ (arg.values = <<Num(4), Num(6)>> /\ arg.risk_lambda = <<1, 100>>)
                 => ret.val = <<249, 50>>

-----------------------------------------------------------------------------

\* learn_index/time + novelty_meter/time + fulfilment_value/max(time,1)
ImpactValue(opt) ==
    LET time == IF "time_taken" \in DOMAIN opt.params
                    THEN opt.params.time_taken ELSE 1
        learn == IF "learn_index" \in DOMAIN opt.params
                     THEN opt.params.learn_index ELSE 0
        novelty == IF "novelty_meter" \in DOMAIN opt.params
                       THEN opt.params.novelty_meter ELSE 0
        fulfil == IF "fulfilment_value" \in DOMAIN opt.params
                      THEN opt.params.fulfilment_value ELSE 0
    IN  RAdd(RAdd(Rat(learn, time), Rat(novelty, time)),
             Rat(fulfil, IF time > 1 THEN time ELSE 1))

\* C10: for every option that passes the default filter (time_taken absent,
\* or any value <= 35, 0 included) combinational_impact returns a defined
\* number, learn_index/time + novelty_meter/time + fulfilment_value/max(time,1),
\* and never divides by zero; for time 5, learn 5, novelty 3, fulfilment 6
\* it is 2.8.
C10_Impact ==
    \A r \in DOMAIN run :
        \A j \in 1..Len(run[r].drawn) :
            LET opt == run[r].feasible[j]
                ci == combinational_impact(opt)
            IN  /\ run[r].err # "ZeroDivisionError"
                /\ ci.err = ""
                /\ ci.val = ImpactValue(opt)
                /\ opt.id = 1 => ci.val = <<14, 5>>

\* what combinational_impact returns for the options score got past
ImpactWhenReturned ==
    \A r \in DOMAIN run :
        Returned(r) =>
            \A j \in 1..Len(run[r].feasible) :
                LET opt == run[r].feasible[j]
                    ci == combinational_impact(opt)
                IN  /\ ci.err = ""
                    /\ ci.val = ImpactValue(opt)
                    /\ opt.id = 1 => ci.val = <<14, 5>>

=============================================================================
